---- MODULE Spec2Model ----
(***************************************************************************)
(* A model of 22056555.py: the energy infographic script.                  *)
(*                                                                         *)
(* A table (pandas DataFrame) is a sequence of rows; a row carries its     *)
(* index label idx (read_csv numbers the rows 0, 1, 2, ...), its country   *)
(* and its year.  The numeric cell of row r in column c is the opaque      *)
(* value <<r.idx, c>>: the script never computes with the cells, it only   *)
(* selects them and hands them to the plotting library.                    *)
(*                                                                         *)
(* Three specifications share the definitions:                             *)
(*   Spec           the script as it runs (lines 257-278)                  *)
(*   SpecCompose    create_combined_image called on any paragraph list     *)
(*   SpecFunctions  filter_data and the four renderers called on bounded   *)
(*                  tables and parameters                                  *)
(***************************************************************************)
EXTENDS Integers, Sequences, FiniteSets, TLC

VARIABLES
    pc,                  \* position of the run
    csv_present,         \* 'World Energy Consumption.csv' exists
    arial_present,       \* arial.ttf is resolvable
    times_present,       \* times.ttf is resolvable
    stale,               \* output files left on disk by an earlier run
    csv_rows,            \* the rows of the CSV file
    df_energy,           \* the table read from the CSV
    selected_countries,  \* list of country names
    start_year,
    end_year,
    df_selected,         \* filter_data's result
    df_again,            \* filter_data applied to df_selected (SpecFunctions)
    written,             \* files written by this run, in order
    plots,               \* file name -> what the renderer drew into it
    failedAt,            \* the step that raised, or "none"
    paragraphs,          \* number of paragraphs given to the compositor
    heading_height,      \* measured height of the heading
    pastes,              \* rectangles pasted so far: [file, x0, y0, x1, y1]
    textbox_position_y,  \* running vertical offset of the text boxes
    boxes,               \* text boxes drawn so far: [x0, y0, x1, y1, text_height]
    canvas               \* size of the image saved as 22056555.png

vars == <<pc, csv_present, arial_present, times_present, stale, csv_rows,
          df_energy, selected_countries, start_year, end_year, df_selected,
          df_again, written, plots, failedAt, paragraphs, heading_height,
          pastes, textbox_position_y, boxes, canvas>>

envVars == <<csv_present, arial_present, times_present, stale, csv_rows>>
paramVars == <<selected_countries, start_year, end_year>>
composeVars == <<paragraphs, heading_height, pastes, textbox_position_y, boxes, canvas>>

-----------------------------------------------------------------------------
(* Bounds of the model *)

MaxRows == 3            \* rows of a table in SpecFunctions
MaxParagraphs == 5      \* paragraphs given to the compositor in SpecCompose
MaxHeadingHeight == 2   \* measured heading heights are 0..MaxHeadingHeight
MaxTextHeight == 2      \* measured wrapped-text heights are 0..MaxTextHeight

-----------------------------------------------------------------------------
(* Constants of the script *)

HardYear == 2022
MainStartYear == 2012
MainEndYear == 2022
MainCountries == <<"Canada", "India", "China", "Japan", "United Kingdom">>
NumParagraphs == 5

WindFile == "Wind_energy_plot.png"
MixFile == "electricity_generation_mix_plot.png"
CarbonFile == "carbon_intensity_plot.png"
PieFile == "china_electricity_production_pie.png"
CompositeFile == "22056555.png"
ChartFiles == {WindFile, MixFile, CarbonFile, PieFile}
AllOutputs == ChartFiles \cup {CompositeFile}

energy_types == <<"greenhouse_gas_emissions", "coal_electricity", "fossil_electricity">>
pie_columns == <<"coal_electricity", "gas_electricity", "nuclear_electricity",
                 "hydro_electricity", "wind_electricity", "solar_electricity",
                 "fossil_electricity", "biofuel_electricity">>

-----------------------------------------------------------------------------
(* Tables *)

Range(s) == {s[i] : i \in 1..Len(s)}

Row(i, c, y) == [idx |-> i, country |-> c, year |-> y]

\* read_csv: the rows in file order, labelled 0, 1, 2, ...
MkTable(kinds) == [i \in 1..Len(kinds) |-> Row(i - 1, kinds[i][1], kinds[i][2])]

Cell(r, column) == <<r.idx, column>>

\* df[column] as the sequence of the column's cells
Column(df, column) == [i \in 1..Len(df) |-> Cell(df[i], column)]

-----------------------------------------------------------------------------
(* filter_data *)

filter_data_exclusive_end(df, countries, s, e) ==
    LET InCountries(r) == r.country \in Range(countries)
        InYears(r) == r.year >= s /\ r.year < e
    IN  SelectSeq(SelectSeq(df, InCountries), InYears)

filter_data_drop_first(df, countries, s, e) ==
    LET InCountries(r) == r.country \in Range(countries)
        InYears(r) == r.year >= s /\ r.year <= e
        kept == SelectSeq(SelectSeq(df, InCountries), InYears)
    IN  IF kept = <<>> THEN kept ELSE Tail(kept)

filter_data(df, countries, s, e) ==
    LET InCountries(r) == r.country \in Range(countries)
        InYears(r) == r.year >= s /\ r.year <= e
        selected == SelectSeq(df, InCountries)              \* line 39
    IN  SelectSeq(selected, InYears)                        \* line 40

-----------------------------------------------------------------------------
(* The chart renderers.  Each yields what the call does: ok (it returned   *)
(* without raising), the file it saves when ok, and what it drew.          *)

Years(df) == [i \in 1..Len(df) |-> df[i].year]

\* One line per country of the list: the country's rows of the table given.
LinePlot(df, countries, column) ==
    [k \in 1..Len(countries) |->
        LET OfCountry(r) == r.country = countries[k]
            df_country == SelectSeq(df, OfCountry)
        IN  [label |-> countries[k], x |-> Years(df_country),
             y |-> Column(df_country, column)]]

plot_wind_raises_on_empty(df, countries) ==
    [fn |-> "wind", ok |-> df # <<>>, file |-> WindFile,
     data |-> LinePlot(df, countries, "wind_electricity")]

plot_wind_energy_trend(df, countries) ==
    [fn |-> "wind", ok |-> TRUE, file |-> WindFile,
     data |-> LinePlot(df, countries, "wind_electricity")]

plot_carbon_intensity(df, countries) ==
    [fn |-> "carbon", ok |-> TRUE, file |-> CarbonFile,
     data |-> LinePlot(df, countries, "carbon_intensity_elec")]

\* plt.bar(x, height) broadcasts its arguments to one shape and raises
\* ValueError when the n positions and the m heights do not broadcast.
Broadcastable(n, m) == n = m \/ n = 1 \/ m = 1

plot_mix_draws_what_it_has(df, countries) ==
    LET In2022(r) == r.year = HardYear
        df_2018 == SelectSeq(df, In2022)
    IN  [fn |-> "mix", ok |-> TRUE, file |-> MixFile,
         data |-> [t \in 1..Len(energy_types) |->
                     [label |-> energy_types[t],
                      height |-> Column(df_2018, energy_types[t])]]]

plot_mix_selects_2018(df, countries) ==
    LET In2018(r) == r.year = 2018
        df_2018 == SelectSeq(df, In2018)
    IN  [fn |-> "mix",
         ok |-> Broadcastable(Len(countries), Len(df_2018)),
         file |-> MixFile,
         data |-> [t \in 1..Len(energy_types) |->
                     [label |-> energy_types[t],
                      height |-> Column(df_2018, energy_types[t])]]]

plot_electricity_generation_mix(df, countries) ==
    LET In2022(r) == r.year = HardYear
        df_2018 == SelectSeq(df, In2022)                              \* line 75
    IN  [fn |-> "mix",
         ok |-> Broadcastable(Len(countries), Len(df_2018)),         \* line 83
         file |-> MixFile,
         data |-> [t \in 1..Len(energy_types) |->
                     [label |-> energy_types[t],
                      height |-> Column(df_2018, energy_types[t])]]]

plot_china_electricity_production_pie(df) ==
    LET China2022(r) == r.country = "China" /\ r.year = HardYear
        china_data_2018 == SelectSeq(df, China2022)                   \* line 126
    IN  [fn |-> "pie",
         ok |-> china_data_2018 # <<>>,                               \* .iloc[0]
         file |-> PieFile,
         data |-> IF china_data_2018 = <<>> THEN <<>>
                  ELSE [k \in 1..Len(pie_columns) |->
                          Cell(china_data_2018[1], pie_columns[k])]]

-----------------------------------------------------------------------------
(* Running a renderer: it saves its file, or it raises and the run ends.   *)

\* The files on disk: those of an earlier run and those written by this one.
Disk == stale \cup Range(written)

Raise(step) ==
    /\ pc' = "failed"
    /\ failedAt' = step
    /\ UNCHANGED <<written, plots>>

RenderStep(r, here, next) ==
    /\ pc = here
    /\ IF r.ok
       THEN /\ written' = Append(written, r.file)       \* plt.savefig
            /\ plots' = (r.file :> r.data) @@ plots
            /\ pc' = next
            /\ failedAt' = failedAt
       ELSE Raise(r.fn)
    /\ UNCHANGED <<envVars, paramVars, df_energy, df_selected, df_again, composeVars>>

-----------------------------------------------------------------------------
(* SpecFunctions: filter_data, then either filter_data again on its own    *)
(* result or one renderer, on bounded tables and parameters.               *)

FnCountries == {"China", "India", "Germany"}
FnYears == {2011, 2021, 2022}
FnKinds == FnCountries \X FnYears

\* One row per (country, year) for the five countries and 2012..2022.
GridTable ==
    MkTable([i \in 1..(Len(MainCountries) * 11) |->
               <<MainCountries[((i - 1) \div 11) + 1], MainStartYear + ((i - 1) % 11)>>])

FnTables ==
    {MkTable(k) : k \in UNION {[1..n -> FnKinds] : n \in 0..MaxRows}} \cup {GridTable}

MainParams == [countries |-> MainCountries, s |-> MainStartYear, e |-> MainEndYear]

FnParams ==
    { MainParams,
      [countries |-> <<"China", "India">>, s |-> 2012, e |-> 2022],
      [countries |-> <<"India", "Germany">>, s |-> 2011, e |-> 2021],
      [countries |-> <<"Germany", "China">>, s |-> 2021, e |-> 2021] }

IdleCompose ==
    /\ paragraphs = 0
    /\ heading_height = 0
    /\ pastes = <<>>
    /\ textbox_position_y = 0
    /\ boxes = <<>>
    /\ canvas = <<0, 0>>

InitFunctions ==
    /\ pc = "call_filter"
    /\ csv_present = TRUE /\ arial_present = TRUE /\ times_present = TRUE
    /\ stale = {}
    /\ df_energy \in FnTables
    /\ csv_rows = df_energy
    /\ \E p \in FnParams :
          /\ selected_countries = p.countries
          /\ start_year = p.s
          /\ end_year = p.e
    /\ df_selected = <<>> /\ df_again = <<>>
    /\ written = <<>> /\ plots = <<>> /\ failedAt = "none"
    /\ IdleCompose

CallFilter ==
    /\ pc = "call_filter"
    /\ df_selected' = filter_data(df_energy, selected_countries, start_year, end_year)
    /\ pc' = "filtered"
    /\ UNCHANGED <<envVars, paramVars, df_energy, df_again, written, plots, failedAt, composeVars>>

CallFilterAgain ==
    /\ pc = "filtered"
    /\ df_again' = filter_data(df_selected, selected_countries, start_year, end_year)
    /\ pc' = "refiltered"
    /\ UNCHANGED <<envVars, paramVars, df_energy, df_selected, written, plots, failedAt, composeVars>>

CallWind == RenderStep(plot_wind_energy_trend(df_selected, selected_countries), "filtered", "returned")
CallMix == RenderStep(plot_electricity_generation_mix(df_selected, selected_countries), "filtered", "returned")
CallCarbon == RenderStep(plot_carbon_intensity(df_selected, selected_countries), "filtered", "returned")
CallPie_on_filtered == RenderStep(plot_china_electricity_production_pie(df_selected), "filtered", "returned")
CallPie == RenderStep(plot_china_electricity_production_pie(df_energy), "filtered", "returned")

NextFunctions == CallFilter \/ CallFilterAgain \/ CallWind \/ CallMix \/ CallCarbon \/ CallPie

SpecFunctions == InitFunctions /\ [][NextFunctions]_vars

-----------------------------------------------------------------------------
(* create_combined_image *)

CanvasWidth == 2400
CanvasHeight == 1500
left_space == 50
graph_width == 800
graph_height == 600
corner_radius == 40
gap == 20
top_offset == 150
textbox_width == 650
textbox_gap == 20
textbox_padding == 40

right_space == CanvasWidth - 850                                      \* line 203

\* Image.open raises when the file is not on disk; the image is resized to
\* size and pasted with its top left corner at (position[0], position[1] + gap).
paste_with_rounded_corners_and_gap(image_path, position, size, radius, g) ==
    [ok |-> image_path \in Disk,
     rect |-> [file |-> image_path,
               x0 |-> position[1],
               y0 |-> position[2] + g,
               x1 |-> position[1] + size[1],
               y1 |-> position[2] + g + size[2]]]

wind_energy_position(h) == <<left_space, h + top_offset>>
pie_chart_position_no_gap(h) == <<left_space, h + top_offset + graph_height>>
pie_chart_position(h) == <<left_space, h + top_offset + graph_height + gap>>
carbon_intensity_position(h) == <<right_space, h + top_offset>>
electricity_generation_mix_position(h) ==
    <<right_space, h + top_offset + graph_height + gap>>

\* The four paste calls in the order of lines 207-227.
PasteCalls(h) ==
    << [file |-> WindFile, position |-> wind_energy_position(h)],
       [file |-> PieFile, position |-> pie_chart_position(h)],
       [file |-> CarbonFile, position |-> carbon_intensity_position(h)],
       [file |-> MixFile, position |-> electricity_generation_mix_position(h)] >>

textbox_position(y) == <<(CanvasWidth - textbox_width) \div 2, y>>
textbox_height(wrapped_text_height) == wrapped_text_height + textbox_padding

next_textbox_position_y_no_gap(y, height) == y + height
next_textbox_position_y(y, height) == y + height + textbox_gap

\* lines 186-193: the canvas, the heading font, the heading's measured size
ComposeHeading ==
    /\ pc = "heading"
    /\ canvas' = <<CanvasWidth, CanvasHeight>>
    /\ IF arial_present
       THEN /\ \E h \in 0..MaxHeadingHeight : heading_height' = h
            /\ pc' = "description"
            /\ UNCHANGED <<written, plots, failedAt>>
       ELSE Raise("compose") /\ UNCHANGED heading_height
    /\ UNCHANGED <<envVars, paramVars, df_energy, df_selected, df_again,
                   paragraphs, pastes, textbox_position_y, boxes>>

\* lines 195-199: the description, in the same font file
ComposeDescription ==
    /\ pc = "description"
    /\ pc' = IF arial_present THEN "paste" ELSE "failed"
    /\ failedAt' = IF arial_present THEN failedAt ELSE "compose"
    /\ UNCHANGED <<envVars, paramVars, df_energy, df_selected, df_again,
                   written, plots, composeVars>>

\* lines 207-227: one of the four paste calls
ComposePaste ==
    /\ pc = "paste"
    /\ LET call == PasteCalls(heading_height)[Len(pastes) + 1]
           r == paste_with_rounded_corners_and_gap(
                    call.file, call.position, <<graph_width, graph_height>>,
                    corner_radius, gap)
       IN  IF r.ok
           THEN /\ pastes' = Append(pastes, r.rect)
                /\ pc' = IF Len(pastes) + 1 = Len(PasteCalls(heading_height))
                         THEN "layout" ELSE "paste"
                /\ UNCHANGED <<written, plots, failedAt>>
           ELSE Raise("compose") /\ UNCHANGED pastes
    /\ UNCHANGED <<envVars, paramVars, df_energy, df_selected, df_again,
                   paragraphs, heading_height, textbox_position_y, boxes, canvas>>

\* lines 229-232
ComposeTextStart ==
    /\ pc = "layout"
    /\ textbox_position_y' = heading_height + top_offset
    /\ pc' = "textbox"
    /\ UNCHANGED <<envVars, paramVars, df_energy, df_selected, df_again,
                   written, plots, failedAt,
                   paragraphs, heading_height, pastes, boxes, canvas>>

\* lines 234-253: one paragraph's text box
ComposeTextBox ==
    /\ pc = "textbox"
    /\ Len(boxes) < paragraphs
    /\ IF times_present
       THEN \E wrapped_text_height \in 0..MaxTextHeight :
              LET position == textbox_position(textbox_position_y)
                  height == textbox_height(wrapped_text_height)
              IN  /\ boxes' = Append(boxes,
                          [x0 |-> position[1], y0 |-> position[2],
                           x1 |-> position[1] + textbox_width,
                           y1 |-> position[2] + height,
                           text_height |-> wrapped_text_height])
                  /\ textbox_position_y' =
                          next_textbox_position_y(textbox_position_y, height)
                  /\ pc' = "textbox"
                  /\ UNCHANGED <<written, plots, failedAt>>
       ELSE Raise("compose") /\ UNCHANGED <<boxes, textbox_position_y>>
    /\ UNCHANGED <<envVars, paramVars, df_energy, df_selected, df_again,
                   paragraphs, heading_height, pastes, canvas>>

\* line 255
ComposeSave ==
    /\ pc = "textbox"
    /\ Len(boxes) = paragraphs
    /\ written' = Append(written, CompositeFile)
    /\ pc' = "done"
    /\ UNCHANGED <<envVars, paramVars, df_energy, df_selected, df_again,
                   plots, failedAt, composeVars>>

create_combined_image ==
    \/ ComposeHeading
    \/ ComposeDescription
    \/ ComposePaste
    \/ ComposeTextStart
    \/ ComposeTextBox
    \/ ComposeSave

\* SpecCompose: the compositor entered with the four charts written, on a
\* list of 0..MaxParagraphs paragraphs.
InitCompose ==
    /\ pc = "heading"
    /\ csv_present = TRUE
    /\ arial_present \in BOOLEAN
    /\ times_present \in BOOLEAN
    /\ stale \in {{}, AllOutputs}
    /\ csv_rows = <<>> /\ df_energy = <<>>
    /\ selected_countries = MainCountries
    /\ start_year = MainStartYear /\ end_year = MainEndYear
    /\ df_selected = <<>> /\ df_again = <<>>
    /\ written = <<WindFile, MixFile, CarbonFile, PieFile>>
    /\ plots = <<>>
    /\ failedAt = "none"
    /\ paragraphs \in 0..MaxParagraphs
    /\ heading_height = 0
    /\ pastes = <<>>
    /\ textbox_position_y = 0
    /\ boxes = <<>>
    /\ canvas = <<0, 0>>

SpecCompose == InitCompose /\ [][create_combined_image]_vars

-----------------------------------------------------------------------------
(* Main execution, lines 257-278 *)

\* The CSV's rows are drawn from these, kept in file order.
CsvKinds ==
    << <<"Canada", 2022>>, <<"China", 2011>>, <<"China", 2022>>,
       <<"China", 2022>>, <<"Germany", 2022>>, <<"India", 2021>>,
       <<"India", 2022>>, <<"Japan", 2022>>, <<"United Kingdom", 2022>> >>

Pick(seq, S) ==
    LET Chosen(i) == i \in S
        at == SelectSeq([i \in 1..Len(seq) |-> i], Chosen)
    IN  [j \in 1..Len(at) |-> seq[at[j]]]

CsvTables == {MkTable(Pick(CsvKinds, S)) : S \in SUBSET (1..Len(CsvKinds))}

Init ==
    /\ pc = "load"
    /\ csv_present \in BOOLEAN
    /\ arial_present \in BOOLEAN
    /\ times_present \in BOOLEAN
    /\ stale \in {{}, AllOutputs}
    /\ csv_rows \in CsvTables
    /\ df_energy = <<>>
    /\ selected_countries = MainCountries
    /\ start_year = MainStartYear /\ end_year = MainEndYear
    /\ df_selected = <<>> /\ df_again = <<>>
    /\ written = <<>> /\ plots = <<>> /\ failedAt = "none"
    /\ IdleCompose

\* lines 258-259: read_data
MainLoad ==
    /\ pc = "load"
    /\ IF csv_present
       THEN /\ df_energy' = csv_rows
            /\ pc' = "filter"
            /\ UNCHANGED <<written, plots, failedAt>>
       ELSE Raise("load") /\ UNCHANGED df_energy
    /\ UNCHANGED <<envVars, paramVars, df_selected, df_again, composeVars>>

\* lines 261-262
MainFilter ==
    /\ pc = "filter"
    /\ df_selected' = filter_data(df_energy, selected_countries, start_year, end_year)
    /\ pc' = "wind"
    /\ UNCHANGED <<envVars, paramVars, df_energy, df_again, written, plots,
                   failedAt, composeVars>>

\* lines 264-267
MainWind == RenderStep(plot_wind_energy_trend(df_selected, selected_countries), "wind", "mix")
MainMix == RenderStep(plot_electricity_generation_mix(df_selected, selected_countries), "mix", "carbon")
MainCarbon == RenderStep(plot_carbon_intensity(df_selected, selected_countries), "carbon", "pie")

MainPie_swallowing_error ==
    /\ pc = "pie"
    /\ LET r == plot_china_electricity_production_pie(df_energy)
       IN  /\ written' = IF r.ok THEN Append(written, r.file) ELSE written
           /\ plots' = IF r.ok THEN (r.file :> r.data) @@ plots ELSE plots
    /\ pc' = "compose"
    /\ UNCHANGED <<envVars, paramVars, df_energy, df_selected, df_again,
                   failedAt, composeVars>>

MainPie == RenderStep(plot_china_electricity_production_pie(df_energy), "pie", "compose")

\* lines 269-278: the call of create_combined_image on the five paragraphs
MainCompose ==
    /\ pc = "compose"
    /\ paragraphs' = NumParagraphs
    /\ pc' = "heading"
    /\ UNCHANGED <<envVars, paramVars, df_energy, df_selected, df_again,
                   written, plots, failedAt,
                   heading_height, pastes, textbox_position_y, boxes, canvas>>

Next ==
    \/ MainLoad
    \/ MainFilter
    \/ MainWind
    \/ MainMix
    \/ MainCarbon
    \/ MainPie
    \/ MainCompose
    \/ create_combined_image

Spec == Init /\ [][Next]_vars

-----------------------------------------------------------------------------
(* Properties of filter_data and of the renderers (SpecFunctions)          *)

\* The filter's predicate, stated on a row.
Matches(r) ==
    /\ \E k \in 1..Len(selected_countries) : selected_countries[k] = r.country
    /\ start_year <= r.year
    /\ r.year <= end_year

Occurrences(df, r) == Cardinality({i \in 1..Len(df) : df[i] = r})

\* C1: filter_data returns exactly the input rows whose country is selected
\* and whose year lies in [start_year, end_year], each exactly once; the
\* 5 x 11 grid table under the script's parameters yields 55 rows.
C1_FilterExact ==
    pc = "filtered" =>
        /\ \A i \in 1..Len(df_selected) :
              /\ Matches(df_selected[i])
              /\ \E j \in 1..Len(df_energy) : df_energy[j] = df_selected[i]
        /\ \A j \in 1..Len(df_energy) :
              Occurrences(df_selected, df_energy[j]) =
                  IF Matches(df_energy[j]) THEN 1 ELSE 0
        /\ (df_energy = GridTable /\ selected_countries = MainCountries
            /\ start_year = 2012 /\ end_year = 2022) => Len(df_selected) = 55

C1_Witness ==
    /\ pc = "filtered"
    /\ Len(df_selected) = 2
    /\ Len(df_energy) = 3
    /\ \E j \in 1..Len(df_energy) : ~Matches(df_energy[j])

C1_GridWitness ==
    pc = "filtered" /\ df_energy = GridTable /\ Len(df_selected) = 55

\* C2: filtering the filtered table again with the same parameters gives the
\* same rows in the same order.
C2_FilterIdempotent ==
    pc = "refiltered" => df_again = df_selected

C2_Witness ==
    /\ pc = "refiltered"
    /\ Len(df_again) >= 2
    /\ Len(df_again) < Len(df_energy)

Called(fn) ==
    \/ failedAt = fn
    \/ fn = "wind" /\ WindFile \in Range(written)
    \/ fn = "mix" /\ MixFile \in Range(written)
    \/ fn = "carbon" /\ CarbonFile \in Range(written)
    \/ fn = "pie" /\ PieFile \in Range(written)

No2022(df) == \A i \in 1..Len(df) : df[i].year # 2022
NoChina2022(df) == \A i \in 1..Len(df) : ~(df[i].country = "China" /\ df[i].year = 2022)

\* C7 as stated: each of the four renderers fails, writing no file, when the
\* table it is given holds no row for 2022.
C7_AllFailWithout2022 ==
    /\ \A fn \in {"wind", "mix", "carbon"} :
          (Called(fn) /\ No2022(df_selected)) => (failedAt = fn /\ written = <<>>)
    /\ (Called("pie") /\ No2022(df_energy)) => (failedAt = "pie" /\ written = <<>>)

\* C7, amended: without a 2022 row the bar chart renderer fails (two or more
\* countries in the list), and without a China 2022 row the pie renderer
\* fails, neither writing its file; the two line renderers have no
\* hard-coded year and always complete and write their files.
C7_OnlyMixAndPieFail ==
    /\ (Called("mix") /\ No2022(df_selected) /\ Len(selected_countries) >= 2)
          => (failedAt = "mix" /\ written = <<>>)
    /\ (Called("pie") /\ NoChina2022(df_energy))
          => (failedAt = "pie" /\ written = <<>>)
    /\ Called("wind") => (failedAt = "none" /\ written = <<WindFile>>)
    /\ Called("carbon") => (failedAt = "none" /\ written = <<CarbonFile>>)

C7_Witness ==
    /\ failedAt = "mix"
    /\ df_selected # <<>>
    /\ No2022(df_selected)
    /\ written = <<>>

BlankLines(data) == \A k \in 1..Len(data) : data[k].x = <<>> /\ data[k].y = <<>>

\* C8 as stated: on an empty filtered table none of the three renderers that
\* receive it fails; each writes its blank chart.
C8_EmptyNeverFails ==
    df_selected = <<>> =>
        /\ Called("wind") => (failedAt = "none" /\ written = <<WindFile>>)
        /\ Called("mix") => (failedAt = "none" /\ written = <<MixFile>>)
        /\ Called("carbon") => (failedAt = "none" /\ written = <<CarbonFile>>)

\* C8, amended: on an empty filtered table the two line renderers complete
\* and write blank charts, while the bar chart renderer (two or more
\* countries in the list) fails and writes nothing.
C8_EmptyFailsOnlyMix ==
    df_selected = <<>> =>
        /\ Called("wind") =>
              /\ failedAt = "none" /\ written = <<WindFile>>
              /\ BlankLines(plots[WindFile])
        /\ Called("carbon") =>
              /\ failedAt = "none" /\ written = <<CarbonFile>>
              /\ BlankLines(plots[CarbonFile])
        /\ (Called("mix") /\ Len(selected_countries) >= 2) =>
              (failedAt = "mix" /\ written = <<>>)

C8_Witness ==
    /\ df_selected = <<>>
    /\ df_energy # <<>>
    /\ written = <<CarbonFile>>
    /\ BlankLines(plots[CarbonFile])

\* The index labels of the rows a line plot or a bar plot drew.
LineRows(data) == {c[1] : c \in UNION {Range(data[k].y) : k \in 1..Len(data)}}
BarRows(data) == {c[1] : c \in UNION {Range(data[t].height) : t \in 1..Len(data)}}
MatchingRows == {df_energy[j].idx : j \in {i \in 1..Len(df_energy) : Matches(df_energy[i])}}

FirstChina2022 ==
    LET S == {i \in 1..Len(df_energy) :
                df_energy[i].country = "China" /\ df_energy[i].year = 2022}
    IN  CHOOSE i \in S : \A j \in S : i <= j

\* C9: whatever the selected countries and the year range, the pie renderer
\* succeeds exactly when the full table has a China 2022 row and then draws
\* the eight values of the first such row; the other three renderers draw
\* only rows of the filtered table.
C9_PieIgnoresFilter ==
    /\ Called("pie") =>
          IF NoChina2022(df_energy)
          THEN failedAt = "pie"
          ELSE /\ written = <<PieFile>>
               /\ plots[PieFile] =
                     [k \in 1..8 |-> <<df_energy[FirstChina2022].idx, pie_columns[k]>>]
    /\ WindFile \in Range(written) => LineRows(plots[WindFile]) \subseteq MatchingRows
    /\ CarbonFile \in Range(written) => LineRows(plots[CarbonFile]) \subseteq MatchingRows
    /\ MixFile \in Range(written) => BarRows(plots[MixFile]) \subseteq MatchingRows

\* The pie is drawn from a China 2022 row that the filter has removed.
C9_Witness ==
    /\ written = <<PieFile>>
    /\ NoChina2022(df_selected)
    /\ df_selected # <<>>
    /\ FirstChina2022 > 1

-----------------------------------------------------------------------------
(* Properties of the compositor's layout (SpecCompose)                     *)

\* C3: the first text box is drawn at heading_height + 150, each box is its
\* measured text height plus 40 high, and each next box starts at the
\* previous box's offset plus its height plus 20.
C3_TextBoxStacking ==
    /\ boxes # <<>> => boxes[1].y0 = heading_height + 150
    /\ \A i \in 1..Len(boxes) :
          boxes[i].y1 - boxes[i].y0 = boxes[i].text_height + 40
    /\ \A i \in 1..(Len(boxes) - 1) :
          boxes[i + 1].y0 = boxes[i].y0 + (boxes[i].y1 - boxes[i].y0) + 20

C3_Witness ==
    /\ pc = "done"
    /\ Len(boxes) >= 3
    /\ boxes[1].text_height # boxes[2].text_height
    /\ heading_height > 0

Disjoint(a, b) == a.x1 <= b.x0 \/ b.x1 <= a.x0 \/ a.y1 <= b.y0 \/ b.y1 <= a.y0

\* C10: the four 800 x 600 images lie in pairwise disjoint rectangles, the
\* left column at x in [50, 850], the right at x in [1550, 2350], the lower
\* image of a column starting 20 pixels below the upper one's bottom edge,
\* and every 650 wide text box lies strictly between the two columns.
C10_ImageGrid ==
    /\ Len(pastes) = 4 =>
          LET wind == pastes[1]
              pie == pastes[2]
              carbon == pastes[3]
              mix == pastes[4]
          IN  /\ wind.file = WindFile /\ pie.file = PieFile
              /\ carbon.file = CarbonFile /\ mix.file = MixFile
              /\ \A i \in 1..4 : /\ pastes[i].x1 - pastes[i].x0 = 800
                                 /\ pastes[i].y1 - pastes[i].y0 = 600
              /\ \A i \in 1..4 : \A j \in 1..4 :
                    i # j => Disjoint(pastes[i], pastes[j])
              /\ wind.x0 = 50 /\ wind.x1 = 850 /\ pie.x0 = 50 /\ pie.x1 = 850
              /\ carbon.x0 = 1550 /\ carbon.x1 = 2350
              /\ mix.x0 = 1550 /\ mix.x1 = 2350
              /\ wind.y0 = carbon.y0 /\ pie.y0 = mix.y0
              /\ pie.y0 = wind.y1 + 20
              /\ mix.y0 = carbon.y1 + 20
    /\ \A i \in 1..Len(boxes) :
          /\ boxes[i].x1 - boxes[i].x0 = 650
          /\ boxes[i].x0 > 850
          /\ boxes[i].x1 < 1550

C10_Witness ==
    /\ pc = "done"
    /\ Len(pastes) = 4
    /\ Len(boxes) >= 1
    /\ heading_height > 0

-----------------------------------------------------------------------------
(* Properties of the run (Spec)                                            *)

InCompositor == pc \in {"heading", "description", "paste", "layout", "textbox", "done"}

\* C4: whenever the compositor is running, and so whenever it opens a chart
\* image, all four chart files have been written by this run's renderers.
C4_ChartsBeforeCompositor ==
    (InCompositor \/ failedAt = "compose") => ChartFiles \subseteq Range(written)

C4_Witness ==
    /\ pc = "paste"
    /\ pastes = <<>>
    /\ stale = {}
    /\ ChartFiles \subseteq Range(written)

Rows2022(c) == {i \in 1..Len(csv_rows) : csv_rows[i].country = c /\ csv_rows[i].year = 2022}

InputsResolvable == csv_present /\ arial_present /\ times_present

RunSucceeds ==
    /\ pc # "failed"
    /\ pc # "done" => ENABLED Next
    /\ pc = "done" =>
          /\ written = <<WindFile, MixFile, CarbonFile, PieFile, CompositeFile>>
          /\ canvas = <<2400, 1500>>

\* C5 as stated: with the CSV and the fonts present and a 2022 row for each
\* of the five countries, the run never fails, goes on until it is done, and
\* has then written the four charts and last the 2400 x 1500 composite.
C5_RunCompletes ==
    (InputsResolvable /\ \A k \in 1..Len(MainCountries) : Rows2022(MainCountries[k]) # {})
        => RunSucceeds

\* C5, amended: the same, when the CSV holds exactly one 2022 row for each of
\* the five countries.
C5_RunCompletesOnOneRowEach ==
    (InputsResolvable
     /\ \A k \in 1..Len(MainCountries) : Cardinality(Rows2022(MainCountries[k])) = 1)
        => RunSucceeds

C5_Witness ==
    /\ pc = "done"
    /\ \A k \in 1..Len(MainCountries) : Cardinality(Rows2022(MainCountries[k])) = 1
    /\ Len(csv_rows) > 5
    /\ written = <<WindFile, MixFile, CarbonFile, PieFile, CompositeFile>>

\* C6 as stated: a failed run has run no later step and has left no file.
C6_NoPartialOutput ==
    pc = "failed" => (~ENABLED Next /\ written = <<>>)

\* C6, amended: a failed run has run no later step, retries nothing and has
\* not written the composite; the charts of the renderers that completed
\* before the failing step stay on disk.
C6_FailStopKeepsCharts ==
    pc = "failed" =>
        /\ ~ENABLED Next
        /\ CompositeFile \notin Range(written)
        /\ failedAt = "load" => written = <<>>
        /\ failedAt = "mix" => written = <<WindFile>>
        /\ failedAt = "pie" => written = <<WindFile, MixFile, CarbonFile>>
        /\ failedAt = "compose" => written = <<WindFile, MixFile, CarbonFile, PieFile>>
        /\ failedAt \in {"load", "mix", "pie", "compose"}

C6_Witness ==
    /\ pc = "failed"
    /\ failedAt = "pie"
    /\ written = <<WindFile, MixFile, CarbonFile>>

====
